---------------------------- MODULE Spec2Model ----------------------------
(***************************************************************************)
(* arch/riscv/lib/string.c: __memcpy and __memmove.                        *)
(*                                                                         *)
(* Memory is an array of bytes.  Each call runs on a thread whose locals   *)
(* (s, d, count, distance, last, next, ...) and program counter are one    *)
(* record of th.  Every load and every store of the C code is a step of    *)
(* its own, so that calls on several threads interleave access by access.  *)
(*                                                                         *)
(* An unsigned long is modelled by its bytes_long base-256 digits, digit 0 *)
(* the least significant; >>, << and | are computed on its bits.  A size_t *)
(* is modelled by an integer: a negative integer c stands for the wrapped  *)
(* value 2^BITS_PER_LONG + c, and comparisons are unsigned (ULess).        *)
(***************************************************************************)
EXTENDS Integers, FiniteSets, Sequences, TLC

VARIABLES
    bytes_long,   \* sizeof(long): 4 (rv32) or 8 (rv64)
    efficient,    \* IS_ENABLED(CONFIG_HAVE_EFFICIENT_UNALIGNED_ACCESS)
    bigEndian,    \* byte order of word loads and stores (RISC-V: FALSE)
    mem,          \* memory: address -> byte
    th            \* thread -> the call's locals, position and history

vars == <<bytes_long, efficient, bigEndian, mem, th>>

-----------------------------------------------------------------------------
(* Bounds of the model. *)

\* Largest count of a call; 23 = 2*8 + 7 = 2*wordSize + wordMask on rv64.
MaxCount == 23

\* Largest count of a call in the concurrent specification.
ConcMaxCount == 11

WordSizes == {4, 8}

ConcWordSizes == {4}

-----------------------------------------------------------------------------
(* Constants of the source. *)

mask == bytes_long - 1

BITS_PER_LONG == bytes_long * 8

MIN_THRESHOLD == (BITS_PER_LONG \div 8) * 2

-----------------------------------------------------------------------------
(* Machine arithmetic. *)

RECURSIVE BitAnd(_, _)
BitAnd(a, b) ==
    IF a = 0 \/ b = 0 THEN 0
    ELSE (a % 2) * (b % 2) + 2 * BitAnd(a \div 2, b \div 2)

\* a < b on size_t values (negative integers stand for wrapped values).
ULess(a, b) ==
    IF a < 0 THEN (b < 0 /\ a < b)
    ELSE (b < 0 \/ a < b)

WordIdx == 0 .. (bytes_long - 1)

BitIdx == 0 .. (BITS_PER_LONG - 1)

ToBits(w) == [i \in BitIdx |-> (w[i \div 8] \div (2 ^ (i % 8))) % 2]

FromBits(b) ==
    [k \in WordIdx |->
        b[8*k] + 2 * b[8*k + 1] + 4 * b[8*k + 2] + 8 * b[8*k + 3]
        + 16 * b[8*k + 4] + 32 * b[8*k + 5] + 64 * b[8*k + 6]
        + 128 * b[8*k + 7]]

\* w >> k on an unsigned long
Shr(w, k) ==
    LET b == ToBits(w)
    IN  FromBits([i \in BitIdx |-> IF i + k < BITS_PER_LONG THEN b[i + k] ELSE 0])

\* w << k on an unsigned long (the bits shifted out are lost)
Shl(w, k) ==
    LET b == ToBits(w)
    IN  FromBits([i \in BitIdx |-> IF i >= k THEN b[i - k] ELSE 0])

\* x | y
Or(x, y) ==
    LET bx == ToBits(x)
        by == ToBits(y)
    IN  FromBits([i \in BitIdx |-> IF bx[i] = 1 \/ by[i] = 1 THEN 1 ELSE 0])

-----------------------------------------------------------------------------
(* Memory accesses. *)

Addrs == DOMAIN mem

\* s.as_ulong[0] at address a: the word's digits in the machine's byte order.
LoadWord(m, a) ==
    [i \in WordIdx |-> IF bigEndian THEN m[a + (bytes_long - 1 - i)] ELSE m[a + i]]

StoreWord(m, a, w) ==
    [x \in DOMAIN m |->
        IF x >= a /\ x < a + bytes_long
        THEN (IF bigEndian THEN w[bytes_long - 1 - (x - a)] ELSE w[x - a])
        ELSE m[x]]

StoreByte(m, a, b) == [m EXCEPT ![a] = b]

-----------------------------------------------------------------------------
(* The conditions and expressions of __memcpy and __memmove. *)

BelowThreshold_never(count) == FALSE

\* line 37: count < MIN_THRESHOLD
BelowThreshold(count) == ULess(count, MIN_THRESHOLD)

AlignCond_never(d) == FALSE

\* line 42: d.as_uptr & mask
AlignCond(d) == BitAnd(d, mask) # 0

\* line 45: s.as_uptr & mask
DistanceOf(s) == BitAnd(s, mask)

ShiftCond_short(count) == ~ULess(count, bytes_long)

\* line 64: count >= bytes_long + mask
ShiftCond(count) == ~ULess(count, bytes_long + mask)

DirectCond_any(count) == count # 0

DirectCond_double(count) == ~ULess(count, 2 * bytes_long)

\* line 82: count >= bytes_long
DirectCond(count) == ~ULess(count, bytes_long)

Compose_swapped(last, next, distance) ==
    Or(Shl(last, distance * 8), Shr(next, (bytes_long - distance) * 8))

Compose_unshifted(last, next, distance) ==
    Or(last, Shl(next, (bytes_long - distance) * 8))

\* lines 68-69: last >> (distance * 8) | next << ((bytes_long - distance) * 8)
Compose(last, next, distance) ==
    Or(Shr(last, distance * 8), Shl(next, (bytes_long - distance) * 8))

MoveForward_always(dest, src, count) == TRUE

MoveForward_never(dest, src, count) == FALSE

\* line 103: dest < src || src + count <= dest
MoveForward(dest, src, count) == dest < src \/ src + count <= dest

\* line 106: dest > src
MoveBackward(dest, src) == dest > src

\* lines 90, 104, 113: return dest
ReturnValue(self) == self.dest

-----------------------------------------------------------------------------
(* Memory layout of the calls and its initial contents. *)

AlignUp(x) == ((x + mask) \div bytes_long) * bytes_long

Max(a, b) == IF a >= b THEN a ELSE b

\* copy: src = SrcBase + alignment, dest = DstBase + alignment
SrcBase == bytes_long

DstBase == AlignUp(SrcBase + bytes_long + MaxCount) + bytes_long

\* move: src = MovBase + alignment, dest = src + offset
MovBase == AlignUp(MaxCount) + bytes_long

MemSize ==
    Max(DstBase + bytes_long + MaxCount, MovBase + bytes_long + 2 * MaxCount)
    + 2 * bytes_long

\* two concurrent calls: src of thread t = ConcSrc(t) + alignment, and the
\* destination of each call ends where the source of the other begins
ConcSrc(t) ==
    IF t = 1 THEN AlignUp(ConcMaxCount) + bytes_long
    ELSE AlignUp(AlignUp(ConcMaxCount) + 2 * bytes_long + 2 * ConcMaxCount)
         + bytes_long

ConcMemSize == ConcSrc(2) + 3 * bytes_long + ConcMaxCount

ConcCounts == {1, 2 * bytes_long + 1, ConcMaxCount}

\* Every address holds a byte of its own, none of them 0, so that a byte of
\* memory tells where it was copied from.
Pattern(a) == 255 - a

InitMem(size) == [a \in 0 .. (size - 1) |-> Pattern(a)]

\* the address whose initial byte is b
Origin(b) == 255 - b

-----------------------------------------------------------------------------
(* Threads. *)

NoAccess == [k |-> "none", a |-> 0]

IdleThread ==
    [pc |-> "idle", op |-> "none", dest |-> 0, src |-> 0, n |-> 0,
     s |-> 0, d |-> 0, tmp |-> 0, count |-> 0, distance |-> 0,
     last |-> <<>>, next |-> <<>>, w |-> <<>>, b |-> 0, ret |-> -1,
     \* history
     acc |-> NoAccess,     \* the access of the last step
     nst |-> 0,            \* bytes stored so far
     nword |-> 0,          \* word-sized accesses so far
     ldlo |-> -1,          \* lowest address loaded so far (-1: none)
     ldhi |-> -1,          \* highest address loaded so far (-1: none)
     path |-> "none",      \* memmove's branch
     via |-> "none"]       \* how memcpy came to copy_remainder

\* Thread 2 runs only in the concurrent specification; elsewhere it is "off".
Threads == {1, 2}

OffThread == [IdleThread EXCEPT !.pc = "off"]

\* the record of thread t after a load of size bytes at address a
Loaded(r, kind, a, size) ==
    [r EXCEPT !.acc = [k |-> kind, a |-> a],
              !.nword = IF kind = "ldw" THEN @ + 1 ELSE @,
              !.ldlo = IF @ = -1 \/ a < @ THEN a ELSE @,
              !.ldhi = IF a + size - 1 > @ THEN a + size - 1 ELSE @]

Stored(r, kind, a, size) ==
    [r EXCEPT !.acc = [k |-> kind, a |-> a],
              !.nword = IF kind = "stw" THEN @ + 1 ELSE @,
              !.nst = @ + size]

Local(r) == [r EXCEPT !.acc = NoAccess]

Enter(op, dest, src, n) ==
    [IdleThread EXCEPT !.pc = IF op = "copy" THEN "cpy_entry" ELSE "mv_entry",
                       !.op = op, !.dest = dest, !.src = src, !.n = n,
                       !.count = n]

-----------------------------------------------------------------------------
(* The calls. *)

\* copy(dest, src, count) on non-overlapping regions, every alignment pair
CallCopy(t) ==
    /\ th[t].pc = "idle"
    /\ \E sa \in WordIdx, da \in WordIdx, n \in 0 .. MaxCount :
          th' = [th EXCEPT ![t] = Enter("copy", DstBase + da, SrcBase + sa, n)]
    /\ UNCHANGED <<bytes_long, efficient, bigEndian, mem>>

\* move(dest, src, count) with dest = src + off, off in -count .. count
CallMove(t) ==
    /\ th[t].pc = "idle"
    /\ \E sa \in WordIdx, n \in 0 .. MaxCount :
          \E off \in (0 - n) .. n :
             th' = [th EXCEPT ![t] =
                       Enter("move", MovBase + sa + off, MovBase + sa, n)]
    /\ UNCHANGED <<bytes_long, efficient, bigEndian, mem>>

\* the call of thread t in the concurrent specification.  kind "copy" and
\* "move": on disjoint regions, dest ending where the source of the other
\* thread begins, so that the aligned word below a misaligned source holds
\* bytes of the other call's destination.  kind "slide": a move onto its own
\* source, one byte up.
ConcCall(t, kind, src, othersrc, n) ==
    IF kind = "slide" THEN Enter("move", src + 1, src, n)
    ELSE Enter(kind, othersrc - n, src, n)

ConcKinds == {"copy", "move", "slide"}

\* Two calls start; the regions of one are disjoint from those of the other.
ConcStart ==
    /\ \A t \in Threads : th[t].pc = "idle"
    /\ \E sa1 \in WordIdx, sa2 \in WordIdx, n1 \in ConcCounts, n2 \in ConcCounts :
          \E k1 \in ConcKinds, k2 \in ConcKinds :
             LET src1 == ConcSrc(1) + sa1
                 src2 == ConcSrc(2) + sa2
             IN  th' = [t \in Threads |->
                           IF t = 1 THEN ConcCall(1, k1, src1, src2, n1)
                           ELSE ConcCall(2, k2, src2, src1, n2)]
    /\ UNCHANGED <<bytes_long, efficient, bigEndian, mem>>

-----------------------------------------------------------------------------
(* __memmove, lines 101-114. *)

MvEntry(t) ==
    LET r == th[t] IN
    /\ r.pc = "mv_entry"
    /\ IF MoveForward(r.dest, r.src, r.count)
       THEN th' = [th EXCEPT ![t] =
                      [Local(r) EXCEPT !.pc = "cpy_entry", !.path = "memcpy"]]
       ELSE IF MoveBackward(r.dest, r.src)
       THEN th' = [th EXCEPT ![t] =
                      [Local(r) EXCEPT !.pc = "mv_test", !.path = "backward",
                                       !.s = r.src + r.count,
                                       !.tmp = r.dest + r.count]]
       ELSE th' = [th EXCEPT ![t] =
                      [Local(r) EXCEPT !.pc = "done", !.ret = ReturnValue(r)]]
    /\ UNCHANGED <<bytes_long, efficient, bigEndian, mem>>

\* line 110: while (count--)
MvTest(t) ==
    LET r == th[t] IN
    /\ r.pc = "mv_test"
    /\ th' = [th EXCEPT ![t] =
                 [Local(r) EXCEPT !.count = r.count - 1,
                                  !.pc = IF r.count # 0 THEN "mv_load" ELSE "done",
                                  !.ret = IF r.count # 0 THEN @ ELSE ReturnValue(r)]]
    /\ UNCHANGED <<bytes_long, efficient, bigEndian, mem>>

\* line 111: *--s
MvLoad(t) ==
    LET r == th[t] IN
    /\ r.pc = "mv_load"
    /\ th' = [th EXCEPT ![t] =
                 [Loaded(r, "ldb", r.s - 1, 1) EXCEPT
                      !.s = r.s - 1, !.b = mem[r.s - 1], !.pc = "mv_store"]]
    /\ UNCHANGED <<bytes_long, efficient, bigEndian, mem>>

\* line 111: *--tmp =
MvStore(t) ==
    LET r == th[t] IN
    /\ r.pc = "mv_store"
    /\ mem' = StoreByte(mem, r.tmp - 1, r.b)
    /\ th' = [th EXCEPT ![t] =
                 [Stored(r, "stb", r.tmp - 1, 1) EXCEPT
                      !.tmp = r.tmp - 1, !.pc = "mv_test"]]
    /\ UNCHANGED <<bytes_long, efficient, bigEndian>>

-----------------------------------------------------------------------------
(* __memcpy, lines 31-91. *)

\* lines 33-40
CpyEntry(t) ==
    LET r == th[t] IN
    /\ r.pc = "cpy_entry"
    /\ th' = [th EXCEPT ![t] =
                 [Local(r) EXCEPT
                      !.s = r.src, !.d = r.dest, !.distance = 0,
                      !.via = IF BelowThreshold(r.count) THEN "small" ELSE @,
                      !.pc = IF BelowThreshold(r.count) THEN "rem_test"
                             ELSE IF ~efficient THEN "align_test"
                             ELSE "dist_test"]]
    /\ UNCHANGED <<bytes_long, efficient, bigEndian, mem>>

\* line 42 (the loop's condition) and line 45
AlignTest(t) ==
    LET r == th[t] IN
    /\ r.pc = "align_test"
    /\ th' = [th EXCEPT ![t] =
                 IF AlignCond(r.d)
                 THEN [Local(r) EXCEPT !.pc = "align_load"]
                 ELSE [Local(r) EXCEPT !.distance = DistanceOf(r.s),
                                       !.pc = "dist_test"]]
    /\ UNCHANGED <<bytes_long, efficient, bigEndian, mem>>

\* line 43: *s.as_u8++
AlignLoad(t) ==
    LET r == th[t] IN
    /\ r.pc = "align_load"
    /\ th' = [th EXCEPT ![t] =
                 [Loaded(r, "ldb", r.s, 1) EXCEPT
                      !.b = mem[r.s], !.s = r.s + 1, !.pc = "align_store"]]
    /\ UNCHANGED <<bytes_long, efficient, bigEndian, mem>>

\* line 43: *d.as_u8++ =, then line 42: count--
AlignStore(t) ==
    LET r == th[t] IN
    /\ r.pc = "align_store"
    /\ mem' = StoreByte(mem, r.d, r.b)
    /\ th' = [th EXCEPT ![t] =
                 [Stored(r, "stb", r.d, 1) EXCEPT
                      !.d = r.d + 1, !.count = r.count - 1, !.pc = "align_test"]]
    /\ UNCHANGED <<bytes_long, efficient, bigEndian>>

\* line 48, and line 57 when distance is not 0
DistTest(t) ==
    LET r == th[t] IN
    /\ r.pc = "dist_test"
    /\ th' = [th EXCEPT ![t] =
                 IF r.distance # 0
                 THEN [Local(r) EXCEPT !.s = r.s - r.distance, !.pc = "shift_pre"]
                 ELSE [Local(r) EXCEPT !.pc = "direct_test"]]
    /\ UNCHANGED <<bytes_long, efficient, bigEndian, mem>>

\* line 63: next = s.as_ulong[0]
ShiftPre(t) ==
    LET r == th[t] IN
    /\ r.pc = "shift_pre"
    /\ th' = [th EXCEPT ![t] =
                 [Loaded(r, "ldw", r.s, bytes_long) EXCEPT
                      !.next = LoadWord(mem, r.s), !.pc = "shift_test"]]
    /\ UNCHANGED <<bytes_long, efficient, bigEndian, mem>>

\* line 64 (the loop's condition) and line 76
ShiftTest(t) ==
    LET r == th[t] IN
    /\ r.pc = "shift_test"
    /\ th' = [th EXCEPT ![t] =
                 IF ShiftCond(r.count)
                 THEN [Local(r) EXCEPT !.pc = "shift_load"]
                 ELSE [Local(r) EXCEPT !.s = r.s + r.distance,
                                       !.via = "shifted", !.pc = "rem_test"]]
    /\ UNCHANGED <<bytes_long, efficient, bigEndian, mem>>

\* lines 65-66: last = next; next = s.as_ulong[1]
ShiftLoad(t) ==
    LET r == th[t] IN
    /\ r.pc = "shift_load"
    /\ th' = [th EXCEPT ![t] =
                 [Loaded(r, "ldw", r.s + bytes_long, bytes_long) EXCEPT
                      !.last = r.next,
                      !.next = LoadWord(mem, r.s + bytes_long),
                      !.pc = "shift_store"]]
    /\ UNCHANGED <<bytes_long, efficient, bigEndian, mem>>

\* lines 68-72, then line 64: count -= bytes_long
ShiftStore(t) ==
    LET r == th[t] IN
    /\ r.pc = "shift_store"
    /\ mem' = StoreWord(mem, r.d, Compose(r.last, r.next, r.distance))
    /\ th' = [th EXCEPT ![t] =
                 [Stored(r, "stw", r.d, bytes_long) EXCEPT
                      !.d = r.d + bytes_long, !.s = r.s + bytes_long,
                      !.count = r.count - bytes_long, !.pc = "shift_test"]]
    /\ UNCHANGED <<bytes_long, efficient, bigEndian>>

\* line 82 (the loop's condition)
DirectTest(t) ==
    LET r == th[t] IN
    /\ r.pc = "direct_test"
    /\ th' = [th EXCEPT ![t] =
                 IF DirectCond(r.count)
                 THEN [Local(r) EXCEPT !.pc = "direct_load"]
                 ELSE [Local(r) EXCEPT !.via = "direct", !.pc = "rem_test"]]
    /\ UNCHANGED <<bytes_long, efficient, bigEndian, mem>>

\* line 83: *s.as_ulong++
DirectLoad(t) ==
    LET r == th[t] IN
    /\ r.pc = "direct_load"
    /\ th' = [th EXCEPT ![t] =
                 [Loaded(r, "ldw", r.s, bytes_long) EXCEPT
                      !.w = LoadWord(mem, r.s), !.s = r.s + bytes_long,
                      !.pc = "direct_store"]]
    /\ UNCHANGED <<bytes_long, efficient, bigEndian, mem>>

\* line 83: *d.as_ulong++ =, then line 82: count -= bytes_long
DirectStore(t) ==
    LET r == th[t] IN
    /\ r.pc = "direct_store"
    /\ mem' = StoreWord(mem, r.d, r.w)
    /\ th' = [th EXCEPT ![t] =
                 [Stored(r, "stw", r.d, bytes_long) EXCEPT
                      !.d = r.d + bytes_long, !.count = r.count - bytes_long,
                      !.pc = "direct_test"]]
    /\ UNCHANGED <<bytes_long, efficient, bigEndian>>

\* line 87: while (count--), and line 90 when the loop ends
RemTest(t) ==
    LET r == th[t] IN
    /\ r.pc = "rem_test"
    /\ th' = [th EXCEPT ![t] =
                 [Local(r) EXCEPT !.count = r.count - 1,
                                  !.pc = IF r.count # 0 THEN "rem_load" ELSE "done",
                                  !.ret = IF r.count # 0 THEN @ ELSE ReturnValue(r)]]
    /\ UNCHANGED <<bytes_long, efficient, bigEndian, mem>>

\* line 88: *s.as_u8++
RemLoad(t) ==
    LET r == th[t] IN
    /\ r.pc = "rem_load"
    /\ th' = [th EXCEPT ![t] =
                 [Loaded(r, "ldb", r.s, 1) EXCEPT
                      !.b = mem[r.s], !.s = r.s + 1, !.pc = "rem_store"]]
    /\ UNCHANGED <<bytes_long, efficient, bigEndian, mem>>

\* line 88: *d.as_u8++ =
RemStore(t) ==
    LET r == th[t] IN
    /\ r.pc = "rem_store"
    /\ mem' = StoreByte(mem, r.d, r.b)
    /\ th' = [th EXCEPT ![t] =
                 [Stored(r, "stb", r.d, 1) EXCEPT !.d = r.d + 1, !.pc = "rem_test"]]
    /\ UNCHANGED <<bytes_long, efficient, bigEndian>>

-----------------------------------------------------------------------------
(* Specifications. *)

\* One call on a little-endian machine (RISC-V).
Init ==
    /\ bytes_long \in WordSizes
    /\ efficient \in BOOLEAN
    /\ bigEndian = FALSE
    /\ mem = InitMem(MemSize)
    /\ th = [t \in Threads |-> IF t = 1 THEN IdleThread ELSE OffThread]

\* One call, on a machine of either byte order.
InitEndian ==
    /\ bytes_long \in WordSizes
    /\ efficient \in BOOLEAN
    /\ bigEndian \in BOOLEAN
    /\ mem = InitMem(MemSize)
    /\ th = [t \in Threads |-> IF t = 1 THEN IdleThread ELSE OffThread]

\* a step of the call of thread t
Step(t) ==
    \/ MvEntry(t)
    \/ MvTest(t)
    \/ MvLoad(t)
    \/ MvStore(t)
    \/ CpyEntry(t)
    \/ AlignTest(t)
    \/ AlignLoad(t)
    \/ AlignStore(t)
    \/ DistTest(t)
    \/ ShiftPre(t)
    \/ ShiftTest(t)
    \/ ShiftLoad(t)
    \/ ShiftStore(t)
    \/ DirectTest(t)
    \/ DirectLoad(t)
    \/ DirectStore(t)
    \/ RemTest(t)
    \/ RemLoad(t)
    \/ RemStore(t)

Next ==
    \E t \in Threads :
        \/ CallCopy(t)
        \/ CallMove(t)
        \/ Step(t)

\* Two calls on two threads, their loads and stores interleaved.
InitConc ==
    /\ bytes_long \in ConcWordSizes
    /\ efficient \in BOOLEAN
    /\ bigEndian = FALSE
    /\ mem = InitMem(ConcMemSize)
    /\ th = [t \in Threads |-> IdleThread]

NextConc ==
    \/ ConcStart
    \/ \E t \in Threads : Step(t)

Spec == Init /\ [][Next]_vars

SpecEndian == InitEndian /\ [][Next]_vars

SpecConc == InitConc /\ [][NextConc]_vars

-----------------------------------------------------------------------------
(* Properties. *)

\* the bytes of dest[0..n) of thread t's call
DestRange(t) == th[t].dest .. (th[t].dest + th[t].n - 1)

SrcRange(t) == th[t].src .. (th[t].src + th[t].n - 1)

Running(t) == th[t].pc \notin {"off", "idle"}

Done(t) == th[t].pc = "done"

\* memory after "read src[0..n), then write dest[0..n)" on the initial memory
Reference(t) ==
    [a \in Addrs |->
        IF a \in DestRange(t) THEN Pattern(th[t].src + (a - th[t].dest))
        ELSE Pattern(a)]

IsLoad(t) == th[t].acc.k \in {"ldb", "ldw"}

IsStore(t) == th[t].acc.k \in {"stb", "stw"}

IsWordAccess(t) == th[t].acc.k \in {"ldw", "stw"}

AccSize(t) == IF IsWordAccess(t) THEN bytes_long ELSE 1

\* C1: on a little-endian machine, when copy(dest, src, count) on
\* non-overlapping regions returns, dest[0..count) holds the bytes that were
\* at src[0..count) and the value returned is dest; for both values of the
\* flag, every pair of alignments and every count up to MaxCount.
C1_CopyCopies ==
    \A t \in Threads :
        (th[t].op = "copy" /\ Done(t)) =>
            /\ \A i \in 0 .. (th[t].n - 1) :
                  mem[th[t].dest + i] = Pattern(th[t].src + i)
            /\ th[t].ret = th[t].dest

\* A copy of 2*wordSize + wordMask bytes has returned after the shifted word
\* copy stored at least one word.
C1_Witness ==
    \E t \in Threads :
        /\ th[t].op = "copy" /\ Done(t)
        /\ th[t].n = 2 * bytes_long + mask
        /\ th[t].via = "shifted" /\ th[t].nword >= 3
        /\ ~efficient

\* C2: when move(dest, src, n) with dest = src + d, -n < d < n, returns, the
\* whole memory is what reading src[0..n) first and writing dest[0..n)
\* afterwards leaves.
C2_MoveMoves ==
    \A t \in Threads :
        (/\ th[t].op = "move" /\ Done(t)
         /\ th[t].dest - th[t].src < th[t].n
         /\ th[t].src - th[t].dest < th[t].n) => mem = Reference(t)

\* A move to a destination less than one word below the source has returned
\* after copying words forward.
C2_Witness ==
    \E t \in Threads :
        /\ th[t].op = "move" /\ Done(t)
        /\ th[t].dest < th[t].src /\ th[t].src - th[t].dest < bytes_long
        /\ th[t].path = "memcpy" /\ th[t].nword >= 4

\* C3: every store of a call is inside dest[0..count), every byte outside
\* dest[0..count) keeps its value, and a call with count = 0 stores nothing.
C3_Frame ==
    \A t \in Threads :
        Running(t) =>
            /\ IsStore(t) =>
                  /\ th[t].acc.a >= th[t].dest
                  /\ th[t].acc.a + AccSize(t) <= th[t].dest + th[t].n
            /\ \A a \in Addrs :
                  (\A u \in Threads : ~(Running(u) /\ a \in DestRange(u)))
                      => mem[a] = Pattern(a)
            /\ th[t].n = 0 => (th[t].nst = 0 /\ ~IsStore(t))

\* A call has returned after storing bytes and words.
C3_Witness ==
    \E t \in Threads :
        /\ Done(t) /\ th[t].nword >= 2
        /\ th[t].nst = th[t].n /\ th[t].n > 2 * bytes_long

\* C6: when the flag is false, every word-sized load and store of __memcpy is
\* at a multiple of wordSize, and a call with count < 2*wordSize makes no
\* word-sized access.
C6_WordAccessesAligned ==
    \A t \in Threads :
        Running(t) =>
            /\ (~efficient /\ IsWordAccess(t)) => th[t].acc.a % bytes_long = 0
            /\ th[t].n < 2 * bytes_long => (th[t].nword = 0 /\ ~IsWordAccess(t))

\* With the flag false, the shifted loop has stored a word for a source and
\* a destination that are both misaligned.
C6_Witness ==
    \E t \in Threads :
        /\ ~efficient /\ th[t].op = "copy"
        /\ th[t].pc = "shift_test" /\ th[t].acc.k = "stw"
        /\ th[t].dest % bytes_long # 0 /\ th[t].src % bytes_long # 0

\* C7 as stated: at the byte-remainder loop after a word-copy phase, fewer
\* than wordSize bytes remain.
C7_RemainderBelowWord ==
    \A t \in Threads :
        (th[t].pc = "rem_test" /\ th[t].via \in {"shifted", "direct"})
            => (th[t].count >= 0 /\ th[t].count < bytes_long)

\* C7, amended: at the byte-remainder loop, fewer than wordSize bytes remain
\* after the direct word copy, and fewer than wordSize + wordMask after the
\* shifted word copy.
C7_RemainderBound ==
    \A t \in Threads :
        th[t].pc = "rem_test" =>
            /\ th[t].via = "direct" =>
                  (th[t].count >= 0 /\ th[t].count < bytes_long)
            /\ th[t].via = "shifted" =>
                  (th[t].count >= 0 /\ th[t].count < bytes_long + mask)

\* The shifted loop has stored a word and leaves 2*wordSize - 2 bytes to the
\* byte-remainder loop.
C7_Witness ==
    \E t \in Threads :
        /\ th[t].pc = "rem_test" /\ th[t].via = "shifted"
        /\ th[t].acc.k = "none" /\ th[t].nst > 0
        /\ th[t].nword >= 3
        /\ th[t].count = 2 * bytes_long - 2

ShiftStored(t) ==
    /\ th[t].op = "copy"
    /\ th[t].pc = "shift_test" /\ th[t].acc.k = "stw"

\* the stored word is the wordSize source bytes at the unaligned source
\* position the loop was at
StoredIsSource(t) ==
    \A i \in WordIdx :
        mem[th[t].acc.a + i] = Pattern(th[t].src + (th[t].acc.a - th[t].dest) + i)

\* C9: with words little-endian, each word the shifted loop stores is the
\* wordSize source bytes at the current unaligned source position, for every
\* distance; with words big-endian, the word it stores differs from them
\* (the bytes of the source being pairwise different), and so does the
\* destination when the copy returns.
C9_ShiftLittleEndianOnly ==
    \A t \in Threads :
        /\ ShiftStored(t) =>
              /\ th[t].distance \in 1 .. (bytes_long - 1)
              /\ ~bigEndian => StoredIsSource(t)
              /\ bigEndian => ~StoredIsSource(t)
        /\ (th[t].op = "copy" /\ Done(t) /\ th[t].via = "shifted"
               /\ th[t].nword >= 3 /\ bigEndian) =>
              \E i \in 0 .. (th[t].n - 1) :
                  mem[th[t].dest + i] # Pattern(th[t].src + i)

\* On a big-endian machine a copy has returned after the shifted loop stored
\* a word, with distance wordSize - 1.
C9_Witness ==
    \E t \in Threads :
        /\ bigEndian /\ th[t].op = "copy" /\ Done(t)
        /\ th[t].via = "shifted" /\ th[t].nword >= 3
        /\ th[t].distance = bytes_long - 1

\* C10: with the flag false, copy loads nothing at or above src + count and
\* nothing more than wordSize - 1 bytes below src; a load below src is an
\* aligned word load of the shifted path; every word the shifted path loads
\* holds a byte of src[0..count); and no byte from below src is stored
\* anywhere.
C10_LoadBounds ==
    \A t \in Threads :
        (th[t].op = "copy" /\ Running(t) /\ ~efficient) =>
            /\ th[t].ldhi < th[t].src + th[t].n \/ th[t].ldhi = -1
            /\ th[t].ldlo >= th[t].src - (bytes_long - 1) \/ th[t].ldlo = -1
            /\ (IsLoad(t) /\ th[t].acc.a < th[t].src) =>
                  /\ th[t].acc.k = "ldw"
                  /\ th[t].pc \in {"shift_test", "shift_store"}
                  /\ th[t].acc.a % bytes_long = 0
            /\ (th[t].acc.k = "ldw" /\ th[t].pc \in {"shift_test", "shift_store"}) =>
                  /\ th[t].acc.a + bytes_long > th[t].src
                  /\ th[t].acc.a < th[t].src + th[t].n
            /\ \A a \in Addrs : Origin(mem[a]) < th[t].src => a < th[t].src

\* With the flag false a copy has returned whose shifted path loaded the
\* word that starts wordSize - 1 bytes below src and stored words.
C10_Witness ==
    \E t \in Threads :
        /\ th[t].op = "copy" /\ Done(t) /\ ~efficient
        /\ th[t].ldlo = th[t].src - (bytes_long - 1)
        /\ th[t].ldhi = th[t].src + th[t].n - 1
        /\ th[t].nword >= 5


\* the remaining-byte counter has not wrapped in the loops of __memcpy that
\* subtract from it before the byte-remainder loop
NoWrap(t) ==
    th[t].pc \in {"align_test", "align_load", "align_store", "dist_test",
                  "shift_pre", "shift_test", "shift_load", "shift_store",
                  "direct_test", "direct_load", "direct_store"}
        => th[t].count >= 0

Rank(t) ==
    LET r == th[t]
        off == CASE r.pc = "mv_entry" -> 11
                 [] r.pc = "cpy_entry" -> 10
                 [] r.pc = "align_test" -> 9
                 [] r.pc = "align_load" -> 8
                 [] r.pc = "align_store" -> 7
                 [] r.pc = "dist_test" -> 6
                 [] r.pc = "shift_pre" -> 5
                 [] r.pc \in {"shift_test", "direct_test"} -> 4
                 [] r.pc \in {"shift_load", "direct_load"} -> 3
                 [] r.pc \in {"shift_store", "direct_store"} -> 2
                 [] r.pc \in {"rem_test", "mv_test"} -> 1
                 [] r.pc \in {"rem_load", "mv_load"} -> 3
                 [] r.pc \in {"rem_store", "mv_store"} -> 2
                 [] OTHER -> 0
    IN  IF r.pc = "done" THEN 0 ELSE 3 * r.count + off

ConcDisjoint ==
    /\ DestRange(1) \cap DestRange(2) = {}
    /\ DestRange(1) \cap SrcRange(2) = {}
    /\ DestRange(2) \cap SrcRange(1) = {}
    /\ SrcRange(1) \cap SrcRange(2) = {}

\* C4: two calls of copy or move, the regions of one disjoint from those of
\* the other, their loads and stores interleaved in any order: when a call
\* has returned, its dest[0..count) holds the bytes that were at its
\* src[0..count) when it started.
C4_DisjointCallsIndependent ==
    /\ (\A t \in Threads : Running(t)) => ConcDisjoint
    /\ \A t \in Threads :
          Done(t) =>
              \A i \in 0 .. (th[t].n - 1) :
                  mem[th[t].dest + i] = Pattern(th[t].src + i)

\* Both calls have returned, and the first aligned word that the shifted
\* path of thread 1 loaded began below its source with a byte that thread 2
\* had stored.
C4_Witness ==
    /\ \A t \in Threads : Done(t)
    /\ th[1].via = "shifted" /\ th[1].nword = 3
    /\ th[2].path = "memcpy"
    /\ th[1].ldlo < th[1].src
    /\ th[1].ldlo \in DestRange(2)
    /\ th[1].last[0] # Pattern(th[1].ldlo)
    /\ th[1].last[0] = Pattern(th[2].src + (th[1].ldlo - th[2].dest))


=============================================================================
